---- MODULE Spec2Model ----
(***************************************************************************)
(* youvalidateme: the schema cache (Store), its three ingestion paths      *)
(* (startup scan, fsnotify reload, upload), validate-by-name and the       *)
(* per-path statistics.                                                    *)
(*                                                                         *)
(* The repository holds two behaviourally different revisions of the one   *)
(* program: src/youvalidateme.go (revision 1) and src/unnamed/part_000     *)
(* (version = "4").  The variable rev is fixed by Init and selects the     *)
(* revision whose code the actions follow.                                 *)
(*                                                                         *)
(* Abstractions (library behaviour, not code of this repository):          *)
(*  - a file name is a sequence of tokens (<<"a", ".json">> is a.json);    *)
(*  - a file's bytes are one of the named Contents below, classified by    *)
(*    what encoding/json and gojsonschema do with them;                    *)
(*  - a compiled *gojsonschema.Schema is the set of required properties;   *)
(*  - ioutil.WriteFile and a file read are each one atomic step.           *)
(***************************************************************************)
EXTENDS Integers, Sequences, FiniteSets, TLC

(* ------------------------------ bounds -------------------------------- *)
MaxRequests == 2
MaxExtWrites == 1
MaxNameLen == 2

Workers == {"w1", "w2"}
Revisions == {1, 4}

(* ------------------------------ names --------------------------------- *)
JsonExt == ".json"
ExtTokens == {".json", ".txt"}
FileNames == {<<"a", ".json">>, <<"n", ".txt">>}
ReqNames == {<<"a">>, <<"a", ".json">>}
UploadNames == {<<"a">>, <<"a", "$">>}

\* filepath.Ext: the suffix beginning at the final dot of the last element
Ext(name) ==
    IF Len(name) > 0 /\ name[Len(name)] \in ExtTokens THEN name[Len(name)] ELSE ""

TokRank(t) ==
    CASE t = ".json" -> 1 [] t = ".txt" -> 2 [] t = "a" -> 3 [] t = "n" -> 4 [] OTHER -> 5

RECURSIVE NameLess(_, _)
NameLess(x, y) ==
    IF Len(x) = 0 THEN Len(y) > 0
    ELSE IF Len(y) = 0 THEN FALSE
    ELSE IF TokRank(x[1]) # TokRank(y[1]) THEN TokRank(x[1]) < TokRank(y[1])
    ELSE NameLess(Tail(x), Tail(y))

\* ioutil.ReadDir: the directory's entries sorted by file name
RECURSIVE SortedNames(_)
SortedNames(S) ==
    IF S = {} THEN <<>>
    ELSE LET m == CHOOSE x \in S : \A y \in S \ {x} : NameLess(x, y)
         IN  <<m>> \o SortedNames(S \ {m})

(* ----------------------------- contents ------------------------------- *)
\* "trunc"   {"type":                                  not JSON
\* "badtype" {"type": 5}                               JSON, fails the meta-schema
\* "ref"     {"$ref": "#/definitions/missing"}         passes the meta-schema, NewSchema fails
\* "reqName" {"type":"object","required":["name"]}     valid schema
\* "any"     {}                                        valid schema
\* "huge"    a valid schema of 3 MB
Contents == {"trunc", "badtype", "ref", "reqName", "any", "huge"}
NoFile == "nofile"

IsJSON(b) == b \in {"badtype", "ref", "reqName", "any", "huge"}
MetaValid(b) == b \in {"ref", "reqName", "any", "huge"}
Compiles(b) == b \in {"reqName", "any", "huge"}
Required(b) == IF b = "reqName" THEN {"name"} ELSE {}
ByteLen(b) == IF b = "huge" THEN 3 * 1024 * 1024 ELSE 40
ValidContents == {b \in Contents : IsJSON(b) /\ Compiles(b)}

\* documents: "garbage" is not JSON, "ann" is {"name":"Ann"}, "empty" is {}
Docs == {"garbage", "ann", "empty"}
DocIsJSON(d) == d # "garbage"
DocProps(d) == IF d = "ann" THEN {"name"} ELSE {}

\* a *gojsonschema.Schema: nil, or the compiled form of the bytes "from"
NilSchema == [nil |-> TRUE, required |-> {}, from |-> "nofile"]

\* gojsonschema.NewSchema on the bytes b (NoFile: the file cannot be read)
NewSchema(b) ==
    IF b # NoFile /\ IsJSON(b) /\ Compiles(b)
    THEN [err |-> FALSE, schema |-> [nil |-> FALSE, required |-> Required(b), from |-> b]]
    ELSE [err |-> TRUE, schema |-> NilSchema]

\* gojsonschema.Validate(metaSchemaLoader, loader): "err" when the document
\* cannot be loaded, else whether it satisfies the draft-07 meta-schema
MetaValidate(b) ==
    IF b = NoFile \/ ~IsJSON(b) THEN "err"
    ELSE IF MetaValid(b) THEN "valid" ELSE "invalid"

\* schema.Validate(document)
SchemaAccepts(schema, d) == schema.required \subseteq DocProps(d)

maxUploadSize(r) == IF r = 4 THEN 2 * 1024 * 1024 ELSE 100 * 1024

(* ---------------------------- loadSchema ------------------------------ *)
\* outcome "ok": (schema, nil); "err": (nil, error); "panic": panic(err.Error())
loadSchema(r, path, b) ==
    IF Ext(path) # JsonExt THEN [outcome |-> "err", schema |-> NilSchema]
    ELSE IF r = 1
    THEN IF NewSchema(b).err
         THEN [outcome |-> "err", schema |-> NilSchema]
         ELSE [outcome |-> "ok", schema |-> NewSchema(b).schema]
    ELSE CASE MetaValidate(b) = "err" -> [outcome |-> "panic", schema |-> NilSchema]
           [] MetaValidate(b) = "invalid" -> [outcome |-> "err", schema |-> NilSchema]
           [] OTHER -> [outcome |-> "ok", schema |-> NewSchema(b).schema]

\* paths: filepath.Join(schemasDir, name) and filepath.Base(path)
schemasDir == <<"schemas">>
Join(base, name) == base \o <<"/">> \o name

RECURSIVE Base(_)
Base(path) ==
    IF \E i \in 1..Len(path) : path[i] = "/" THEN Base(Tail(path)) ELSE path

\* schemaFileOf using the route variable as it came
schemaFileOf_AsGiven(r, name) == name

\* the file name a handler derives from the {schema} route variable
schemaFileOf(r, name) ==
    IF r = 1 THEN name \o <<JsonExt>>
    ELSE IF Ext(name) # JsonExt THEN name \o <<JsonExt>> ELSE name

\* sanitizeFilename removes every character outside [\w\-.]
SafeTokens == {"a", "n", ".json", ".txt", "..", ".", "test_write"}
sanitizeFilename(name) == SelectSeq(name, LAMBDA t : t \in SafeTokens)

\* the elements of a path, split at its separators
RECURSIVE Split(_)
Split(p) ==
    IF p = <<>> THEN << <<>> >>
    ELSE IF Head(p) = "/" THEN << <<>> >> \o Split(Tail(p))
    ELSE LET r == Split(Tail(p))
         IN  << <<Head(p)>> \o Head(r) >> \o Tail(r)

IsDot(el) == el = <<".">>
IsDotDot(el) == el \in {<<"..">>, <<".", ".">>}

\* filepath.Clean, element by element: empty and "." elements are dropped,
\* ".." removes the element before it, is dropped at the root and is kept at
\* the start of a relative path
RECURSIVE CleanElems(_, _, _)
CleanElems(els, abs, acc) ==
    IF els = <<>> THEN acc
    ELSE LET e == Head(els)
         IN  IF e = <<>> \/ IsDot(e) THEN CleanElems(Tail(els), abs, acc)
             ELSE IF ~IsDotDot(e) THEN CleanElems(Tail(els), abs, Append(acc, e))
             ELSE IF acc # <<>> /\ acc[Len(acc)] # <<"..">>
             THEN CleanElems(Tail(els), abs, SubSeq(acc, 1, Len(acc) - 1))
             ELSE IF abs THEN CleanElems(Tail(els), abs, acc)
             ELSE CleanElems(Tail(els), abs, Append(acc, <<"..">>))

RECURSIVE Unsplit(_)
Unsplit(els) ==
    IF els = <<>> THEN <<>>
    ELSE IF Len(els) = 1 THEN els[1]
    ELSE els[1] \o <<"/">> \o Unsplit(Tail(els))

\* filepath.Clean
Clean(p) ==
    LET abs == p # <<>> /\ Head(p) = "/"
        els == CleanElems(Split(p), abs, <<>>)
    IN  IF els = <<>> THEN (IF abs THEN <<"/">> ELSE <<".">>)
        ELSE (IF abs THEN <<"/">> ELSE <<>>) \o Unsplit(els)

\* filepath.Join of two elements: empty ones are ignored, the result is cleaned
CleanJoin(base, name) ==
    IF base = <<>> /\ name = <<>> THEN <<>>
    ELSE IF base = <<>> THEN Clean(name)
    ELSE IF name = <<>> THEN Clean(base)
    ELSE Clean(base \o <<"/">> \o name)

\* strings.HasPrefix
HasPrefix(s, t) == Len(t) <= Len(s) /\ SubSeq(s, 1, Len(t)) = t

\* safePath: the name must survive sanitizing unchanged and the joined path
\* must begin with the cleaned base directory and a separator
safePath(base, name) ==
    LET sanitized == sanitizeFilename(name)
        fullPath == CleanJoin(base, sanitized)
    IN  IF sanitized # name
        THEN [ok |-> FALSE, err |-> "unsafe filename", path |-> <<>>]
        ELSE IF ~HasPrefix(fullPath, Clean(base) \o <<"/">>)
        THEN [ok |-> FALSE, err |-> "invalid file path", path |-> <<>>]
        ELSE [ok |-> TRUE, err |-> "", path |-> fullPath]

(* ------------------------------ state --------------------------------- *)
VARIABLES
    rev,            \* which revision's code runs
    dirMode,        \* the schema directory: "missing", "readonly" or "writable"
    call,           \* a call of safePath on its own: arguments and result
    allowUploads,   \* --allow-uploads
    disk,           \* schema directory: file name -> contents
    cache,          \* the Store: file name -> *Schema (NilSchema is a nil pointer)
    cacheWriters,   \* holders of cacheMutex.Lock
    cacheReaders,   \* holders of cacheMutex.RLock
    stats,          \* request path -> PathStats
    statsHolders,   \* holders of statsMutex
    events,         \* fsnotify events not yet consumed
    watching,       \* watcher.Add(schemasDir) has been done
    mpc, todo, mschema,      \* main: position, files left to scan, loaded schema
    wpc, wname, wschema,     \* watchSchemas: position, event name, loaded schema
    pc, req, loc,            \* request workers: position, request, locals
    resp,           \* the response written last, with the request it answers
    crashed,        \* the process has died of an unrecovered panic
    nreq, nwrites,  \* requests started, external writes done
    clean,          \* history: every schema file has only ever held a valid schema
    outcomes,       \* history: validation outcomes produced, per request path
    lastPut         \* history: file name -> bytes given to the ingestion that assigned last

vars == <<rev, dirMode, call, allowUploads, disk, cache, cacheWriters, cacheReaders, stats,
          statsHolders, events, watching, mpc, todo, mschema, wpc, wname,
          wschema, pc, req, loc, resp, crashed, nreq, nwrites, clean, outcomes,
          lastPut>>

Empty == [x \in {} |-> 0]

\* the holder of a lock whose goroutine ended without releasing it
Leaked == "leaked"

\* f with key k set to v (the key is added when absent)
Put(f, k, v) == [x \in DOMAIN f \cup {k} |-> IF x = k THEN v ELSE f[x]]

ReadFile(d, name) == IF name \in DOMAIN d THEN d[name] ELSE NoFile

\* schema: the schema text a request carries beside its document
NoReq == [kind |-> "none", name |-> <<>>, body |-> "any", declared |-> 0,
          schema |-> NoFile]
NoLoc == [schemaFile |-> <<>>, valid |-> FALSE, preFound |-> FALSE]
\* bytes: the schema text of a GET /schema answer; names: the list of a GET
\* /schemas answer
NoResp == [status |-> "none", snap |-> Empty, req |-> NoReq, bytes |-> NoFile,
           names |-> {}]

NoOut == [ok |-> FALSE, err |-> "none", path |-> <<>>]
NoCall == [base |-> <<>>, name |-> <<>>, out |-> NoOut]

DirModes == {"missing", "readonly", "writable"}

\* the schema directory at startup: empty, or a schema and a stray text file
InitDisks ==
    {Empty, [n \in FileNames |-> IF Ext(n) = JsonExt THEN "reqName" ELSE "trunc"]}

\* the server after construction
InitServer ==
    /\ rev \in Revisions
    /\ dirMode \in DirModes
    /\ allowUploads \in BOOLEAN
    /\ disk \in (IF dirMode = "missing" THEN {Empty} ELSE InitDisks)
    /\ cache = Empty
    /\ cacheWriters = {}
    /\ cacheReaders = {}
    /\ stats = Empty
    /\ statsHolders = {}
    /\ events = {}
    /\ watching = FALSE
    /\ mpc = "stat"
    /\ todo = <<>>
    /\ mschema = NilSchema
    /\ wpc = "off"
    /\ wname = <<>>
    /\ wschema = NilSchema
    /\ pc = [w \in Workers |-> "idle"]
    /\ req = [w \in Workers |-> NoReq]
    /\ loc = [w \in Workers |-> NoLoc]
    /\ resp = NoResp
    /\ crashed = FALSE
    /\ nreq = 0
    /\ nwrites = 0
    /\ clean = \A n \in DOMAIN disk : disk[n] \in ValidContents
    /\ outcomes = Empty
    /\ lastPut = Empty

Init == InitServer /\ call = NoCall

(* --------------------------- environment ------------------------------ *)
\* the fsnotify event a change of file n produces, once the directory is watched
Notify(op, n) == IF watching THEN events \cup {[op |-> op, name |-> Join(schemasDir, n)]} ELSE events

\* somebody outside the server writes a file of the schema directory
ExtWrite(n, b) ==
    /\ ~crashed
    /\ dirMode # "missing"
    /\ nwrites < MaxExtWrites
    /\ nwrites' = nwrites + 1
    /\ disk' = Put(disk, n, b)
    /\ events' = Notify(IF n \in DOMAIN disk THEN "write" ELSE "create", n)
    /\ clean' = (clean /\ (Ext(n) = JsonExt => b \in ValidContents))
    /\ UNCHANGED <<rev, dirMode, call,
                   allowUploads, cache, cacheWriters, cacheReaders, stats,
                   statsHolders, watching, mpc, todo, mschema, wpc, wname,
                   wschema, pc, req, loc, resp, crashed, nreq, outcomes,
                   lastPut>>

\* somebody outside the server deletes a file of the schema directory
ExtRemove(n) ==
    /\ ~crashed
    /\ nwrites < MaxExtWrites
    /\ n \in DOMAIN disk
    /\ nwrites' = nwrites + 1
    /\ disk' = [x \in DOMAIN disk \ {n} |-> disk[x]]
    /\ events' = Notify("remove", n)
    /\ clean' = (clean /\ Ext(n) # JsonExt)
    /\ UNCHANGED <<rev, dirMode, call,
                   allowUploads, cache, cacheWriters, cacheReaders, stats,
                   statsHolders, watching, mpc, todo, mschema, wpc, wname,
                   wschema, pc, req, loc, resp, crashed, nreq, outcomes,
                   lastPut>>

(* -------------------------- main: startup checks ---------------------- *)
testFile == <<"test_write">>

\* if _, err := os.Stat(schemasDir); os.IsNotExist(err) { log.Fatalf(...) }
StatDir ==
    /\ mpc = "stat"
    /\ mpc' = IF dirMode = "missing" THEN "fatal"
              ELSE IF allowUploads THEN "check_write" ELSE "readdir"
    /\ UNCHANGED <<rev, dirMode, call,
                   allowUploads, disk, cache, cacheWriters, cacheReaders, stats,
                   statsHolders, events, watching, todo, mschema, wpc, wname,
                   wschema, pc, req, loc, resp, crashed, nreq, nwrites, clean,
                   outcomes,
                   lastPut>>

\* CheckWrite taking the directory for writable without trying
CheckWrite_NoTry ==
    /\ mpc = "check_write"
    /\ mpc' = "check_remove"
    /\ UNCHANGED <<rev, dirMode, call,
                   allowUploads, disk, cache, cacheWriters, cacheReaders, stats,
                   statsHolders, events, watching, todo, mschema, wpc, wname,
                   wschema, pc, req, loc, resp, crashed, nreq, nwrites, clean,
                   outcomes,
                   lastPut>>

\* checkSchemasDirWritable: ioutil.WriteFile(testFile, []byte("test"), 0644);
\* its error is fatal
CheckWrite ==
    /\ mpc = "check_write"
    /\ IF dirMode = "writable"
       THEN /\ disk' = Put(disk, testFile, "test")
            /\ mpc' = "check_remove"
       ELSE /\ mpc' = "fatal"
            /\ UNCHANGED disk
    /\ UNCHANGED <<rev, dirMode, call,
                   allowUploads, cache, cacheWriters, cacheReaders, stats,
                   statsHolders, events, watching, todo, mschema, wpc, wname,
                   wschema, pc, req, loc, resp, crashed, nreq, nwrites, clean,
                   outcomes,
                   lastPut>>

\* checkSchemasDirWritable: return os.Remove(testFile)
CheckRemove ==
    /\ mpc = "check_remove"
    /\ disk' = [x \in DOMAIN disk \ {testFile} |-> disk[x]]
    /\ mpc' = "readdir"
    /\ UNCHANGED <<rev, dirMode, call,
                   allowUploads, cache, cacheWriters, cacheReaders, stats,
                   statsHolders, events, watching, todo, mschema, wpc, wname,
                   wschema, pc, req, loc, resp, crashed, nreq, nwrites, clean,
                   outcomes,
                   lastPut>>

(* ------------------------ main: loadSchemas --------------------------- *)
\* files, err := ioutil.ReadDir(schemasDir)
ReadDir ==
    /\ ~crashed
    /\ mpc = "readdir"
    /\ todo' = SortedNames(DOMAIN disk)
    /\ mpc' = "scan"
    /\ UNCHANGED <<rev, dirMode, call,
                   allowUploads, disk, cache, cacheWriters, cacheReaders,
                   stats, statsHolders, events, watching, mschema, wpc, wname,
                   wschema, pc, req, loc, resp, crashed, nreq, nwrites, clean,
                   outcomes,
                   lastPut>>

\* one iteration of the loop up to cacheMutex.Lock()
ScanLoad ==
    /\ ~crashed
    /\ mpc = "scan"
    /\ todo # <<>>
    /\ LET file == Head(todo)
           r == loadSchema(rev, Join(schemasDir, file), ReadFile(disk, file))
       IN  IF Ext(file) # JsonExt \/ r.outcome = "err"
           THEN /\ todo' = Tail(todo)
                /\ UNCHANGED <<mpc, mschema, crashed>>
           ELSE IF r.outcome = "panic"
           THEN /\ crashed' = TRUE
                /\ UNCHANGED <<mpc, mschema, todo>>
           ELSE /\ mschema' = r.schema
                /\ mpc' = "scan_lock"
                /\ UNCHANGED <<todo, crashed>>
    /\ UNCHANGED <<rev, dirMode, call,
                   allowUploads, disk, cache, cacheWriters, cacheReaders,
                   stats, statsHolders, events, watching, wpc, wname, wschema,
                   pc, req, loc, resp, nreq, nwrites, clean, outcomes,
                   lastPut>>

\* cacheMutex.Lock()
ScanLock ==
    /\ ~crashed
    /\ mpc = "scan_lock"
    /\ cacheWriters = {} /\ cacheReaders = {}
    /\ cacheWriters' = {"main"}
    /\ mpc' = "scan_commit"
    /\ UNCHANGED <<rev, dirMode, call,
                   allowUploads, disk, cache, cacheReaders, stats,
                   statsHolders, events, watching, todo, mschema, wpc, wname,
                   wschema, pc, req, loc, resp, crashed, nreq, nwrites, clean,
                   outcomes,
                   lastPut>>

\* cache[file.Name()] = schema; cacheMutex.Unlock()
ScanCommit ==
    /\ ~crashed
    /\ mpc = "scan_commit"
    /\ cache' = Put(cache, Head(todo), mschema)
    /\ cacheWriters' = cacheWriters \ {"main"}
    /\ todo' = Tail(todo)
    /\ mpc' = "scan"
    /\ lastPut' = Put(lastPut, Head(todo), mschema.from)
    /\ UNCHANGED <<rev, dirMode, call,
                   allowUploads, disk, cacheReaders, stats, statsHolders,
                   events, watching, mschema, wpc, wname, wschema, pc, req, loc,
                   resp, crashed, nreq, nwrites, clean, outcomes>>

\* loadSchemas returns; main starts the watcher goroutine and the HTTP server
ScanDone ==
    /\ ~crashed
    /\ mpc = "scan"
    /\ todo = <<>>
    /\ mpc' = "serve"
    /\ wpc' = "init"
    /\ UNCHANGED <<rev, dirMode, call,
                   allowUploads, disk, cache, cacheWriters, cacheReaders,
                   stats, statsHolders, events, watching, todo, mschema, wname,
                   wschema, pc, req, loc, resp, crashed, nreq, nwrites, clean,
                   outcomes,
                   lastPut>>

(* --------------------------- watchSchemas ----------------------------- *)
\* watcher.Add(schemasDir)
WatchAdd ==
    /\ ~crashed
    /\ wpc = "init"
    /\ watching' = TRUE
    /\ wpc' = "select"
    /\ UNCHANGED <<rev, dirMode, call,
                   allowUploads, disk, cache, cacheWriters, cacheReaders,
                   stats, statsHolders, events, mpc, todo, mschema, wname,
                   wschema, pc, req, loc, resp, crashed, nreq, nwrites, clean,
                   outcomes,
                   lastPut>>

\* WatchEvent dropping the entry of a file that was removed
WatchEvent_Forgets(e) ==
    /\ ~crashed
    /\ wpc = "select"
    /\ e \in events
    /\ events' = events \ {e}
    /\ cache' = IF e.op = "remove"
                THEN [x \in DOMAIN cache \ {Base(e.name)} |-> cache[x]]
                ELSE cache
    /\ LET r == loadSchema(rev, e.name, ReadFile(disk, Base(e.name)))
       IN  IF e.op \notin {"write", "create"} \/ Ext(e.name) # JsonExt
              \/ r.outcome = "err"
           THEN UNCHANGED <<wpc, wname, wschema, crashed>>
           ELSE IF r.outcome = "panic"
           THEN /\ crashed' = TRUE
                /\ UNCHANGED <<wpc, wname, wschema>>
           ELSE /\ wname' = e.name
                /\ wschema' = r.schema
                /\ wpc' = "lock"
                /\ UNCHANGED crashed
    /\ UNCHANGED <<rev, dirMode, call,
                   allowUploads, disk, cacheWriters, cacheReaders,
                   stats, statsHolders, watching, mpc, todo, mschema, pc, req,
                   loc, resp, nreq, nwrites, clean, outcomes,
                   lastPut>>

\* case event := <-watcher.Events, up to cacheMutex.Lock()
WatchEvent(e) ==
    /\ ~crashed
    /\ wpc = "select"
    /\ e \in events
    /\ events' = events \ {e}
    /\ LET r == loadSchema(rev, e.name, ReadFile(disk, Base(e.name)))
       IN  IF e.op \notin {"write", "create"} \/ Ext(e.name) # JsonExt
              \/ r.outcome = "err"
           THEN UNCHANGED <<wpc, wname, wschema, crashed>>
           ELSE IF r.outcome = "panic"
           THEN /\ crashed' = TRUE
                /\ UNCHANGED <<wpc, wname, wschema>>
           ELSE /\ wname' = e.name
                /\ wschema' = r.schema
                /\ wpc' = "lock"
                /\ UNCHANGED crashed
    /\ UNCHANGED <<rev, dirMode, call,
                   allowUploads, disk, cache, cacheWriters, cacheReaders,
                   stats, statsHolders, watching, mpc, todo, mschema, pc, req,
                   loc, resp, nreq, nwrites, clean, outcomes,
                   lastPut>>

\* cacheMutex.Lock()
WatchLock ==
    /\ ~crashed
    /\ wpc = "lock"
    /\ cacheWriters = {} /\ cacheReaders = {}
    /\ cacheWriters' = {"watcher"}
    /\ wpc' = "commit"
    /\ UNCHANGED <<rev, dirMode, call,
                   allowUploads, disk, cache, cacheReaders, stats,
                   statsHolders, events, watching, mpc, todo, mschema, wname,
                   wschema, pc, req, loc, resp, crashed, nreq, nwrites, clean,
                   outcomes,
                   lastPut>>

\* WatchCommit publishing a validator that is only partly built
WatchCommit_Partial ==
    /\ ~crashed
    /\ wpc = "commit"
    /\ cache' = Put(cache, Base(wname), [wschema EXCEPT !.required = {}])
    /\ cacheWriters' = cacheWriters \ {"watcher"}
    /\ wpc' = "select"
    /\ lastPut' = Put(lastPut, Base(wname), wschema.from)
    /\ UNCHANGED <<rev, dirMode, call,
                   allowUploads, disk, cacheReaders, stats, statsHolders,
                   events, watching, mpc, todo, mschema, wname, wschema, pc,
                   req, loc, resp, crashed, nreq, nwrites, clean, outcomes>>

\* WatchCommit keyed by event.Name, the path with its directory
WatchCommit_FullPath ==
    /\ ~crashed
    /\ wpc = "commit"
    /\ cache' = Put(cache, wname, wschema)
    /\ cacheWriters' = cacheWriters \ {"watcher"}
    /\ wpc' = "select"
    /\ lastPut' = Put(lastPut, Base(wname), wschema.from)
    /\ UNCHANGED <<rev, dirMode, call,
                   allowUploads, disk, cacheReaders, stats, statsHolders,
                   events, watching, mpc, todo, mschema, wname, wschema, pc,
                   req, loc, resp, crashed, nreq, nwrites, clean, outcomes>>

\* cache[filepath.Base(schemaPath)] = schema; cacheMutex.Unlock()
WatchCommit ==
    /\ ~crashed
    /\ wpc = "commit"
    /\ cache' = Put(cache, Base(wname), wschema)
    /\ cacheWriters' = cacheWriters \ {"watcher"}
    /\ wpc' = "select"
    /\ lastPut' = Put(lastPut, Base(wname), wschema.from)
    /\ UNCHANGED <<rev, dirMode, call,
                   allowUploads, disk, cacheReaders, stats, statsHolders,
                   events, watching, mpc, todo, mschema, wname, wschema, pc,
                   req, loc, resp, crashed, nreq, nwrites, clean, outcomes>>

(* --------------------------- request workers -------------------------- *)
\* net/http serves every request on a goroutine of its own; the goroutines
\* are anonymous, so a new request is given to the first idle worker
WRank(w) == IF w = "w1" THEN 1 ELSE 2
FirstIdle(w) ==
    /\ pc[w] = "idle"
    /\ \A v \in Workers : pc[v] = "idle" => WRank(w) <= WRank(v)

\* the handler of worker w returns after writing the response
Finish(w, status, snap) ==
    /\ resp' = [NoResp EXCEPT !.status = status, !.snap = snap, !.req = req[w]]
    /\ pc' = [pc EXCEPT ![w] = "idle"]
    /\ req' = [req EXCEPT ![w] = NoReq]
    /\ loc' = [loc EXCEPT ![w] = NoLoc]

(* -------------------------- validateHandler --------------------------- *)
\* r.URL.Path of a validation request
Path(name) == <<"/validate/">> \o name

Lookup(name) ==
    IF name \in DOMAIN cache
    THEN [found |-> TRUE, schema |-> cache[name]]
    ELSE [found |-> FALSE, schema |-> NilSchema]

NoOutcome == [valid |-> 0, invalid |-> 0]
OutcomesOf(p) == IF p \in DOMAIN outcomes THEN outcomes[p] ELSE NoOutcome

\* a POST /validate/{schema} request arrives with body doc
StartValidate(w, name, doc) ==
    /\ ~crashed
    /\ mpc = "serve"
    /\ FirstIdle(w)
    /\ nreq < MaxRequests
    /\ nreq' = nreq + 1
    /\ req' = [req EXCEPT ![w] = [NoReq EXCEPT
                  !.kind = "validate", !.name = name, !.body = doc]]
    /\ loc' = [loc EXCEPT ![w] = [NoLoc EXCEPT
                  !.schemaFile = schemaFileOf(rev, name),
                  !.preFound = Lookup(schemaFileOf(rev, name)).found]]
    /\ pc' = [pc EXCEPT ![w] = "v_rlock"]
    /\ UNCHANGED <<rev, dirMode, call,
                   allowUploads, disk, cache, cacheWriters, cacheReaders,
                   stats, statsHolders, events, watching, mpc, todo, mschema,
                   wpc, wname, wschema, resp, crashed, nwrites, clean, outcomes,
                   lastPut>>

\* VRLock without waiting for a writer to leave
VRLock_NoWait(w) ==
    /\ ~crashed
    /\ pc[w] = "v_rlock"
    /\ cacheReaders' = cacheReaders \cup {w}
    /\ pc' = [pc EXCEPT ![w] = "v_lookup"]
    /\ UNCHANGED <<rev, dirMode, call,
                   allowUploads, disk, cache, cacheWriters, stats,
                   statsHolders, events, watching, mpc, todo, mschema, wpc,
                   wname, wschema, req, loc, resp, crashed, nreq, nwrites,
                   clean, outcomes,
                   lastPut>>

\* cacheMutex.RLock()
VRLock(w) ==
    /\ ~crashed
    /\ pc[w] = "v_rlock"
    /\ cacheWriters = {}
    /\ cacheReaders' = cacheReaders \cup {w}
    /\ pc' = [pc EXCEPT ![w] = "v_lookup"]
    /\ UNCHANGED <<rev, dirMode, call,
                   allowUploads, disk, cache, cacheWriters, stats,
                   statsHolders, events, watching, mpc, todo, mschema, wpc,
                   wname, wschema, req, loc, resp, crashed, nreq, nwrites,
                   clean, outcomes,
                   lastPut>>

\* VLookup parsing the document before it tests found
VLookup_ParsesFirst(w) ==
    /\ ~crashed
    /\ pc[w] = "v_lookup"
    /\ cacheReaders' = cacheReaders \ {w}
    /\ LET l == Lookup(loc[w].schemaFile)
           doc == req[w].body
           p == Path(req[w].name)
           ok == SchemaAccepts(l.schema, doc)
       IN  IF ~DocIsJSON(doc)
           THEN /\ Finish(w, "baddoc", Empty)
                /\ UNCHANGED outcomes
           ELSE IF ~l.found
           THEN /\ Finish(w, "notfound", Empty)
                /\ UNCHANGED outcomes
           ELSE IF l.schema.nil
           THEN \* nil pointer dereference in schema.Validate; net/http
                \* recovers the panic and drops the connection
                /\ Finish(w, "aborted", Empty)
                /\ UNCHANGED outcomes
           ELSE /\ outcomes' = Put(outcomes, p,
                       IF ok THEN [OutcomesOf(p) EXCEPT !.valid = @ + 1]
                             ELSE [OutcomesOf(p) EXCEPT !.invalid = @ + 1])
                /\ loc' = [loc EXCEPT ![w].valid = ok]
                /\ pc' = [pc EXCEPT ![w] = "s_lock"]
                /\ UNCHANGED <<req, resp>>
    /\ UNCHANGED <<rev, dirMode, call,
                   allowUploads, disk, cache, cacheWriters, stats,
                   statsHolders, events, watching, mpc, todo, mschema, wpc,
                   wname, wschema, crashed, nreq, nwrites, clean,
                   lastPut>>


\* VLookup going on to updateStats with the read lock still held
VLookup_KeepsRLock(w) ==
    /\ ~crashed
    /\ pc[w] = "v_lookup"
    /\ cacheReaders' = cacheReaders
    /\ LET l == Lookup(loc[w].schemaFile)
           doc == req[w].body
           p == Path(req[w].name)
           ok == SchemaAccepts(l.schema, doc)
       IN  IF ~l.found
           THEN /\ Finish(w, "notfound", Empty)
                /\ UNCHANGED outcomes
           ELSE IF ~DocIsJSON(doc)
           THEN /\ Finish(w, "baddoc", Empty)
                /\ UNCHANGED outcomes
           ELSE IF l.schema.nil
           THEN \* nil pointer dereference in schema.Validate; net/http
                \* recovers the panic and drops the connection
                /\ Finish(w, "aborted", Empty)
                /\ UNCHANGED outcomes
           ELSE /\ outcomes' = Put(outcomes, p,
                       IF ok THEN [OutcomesOf(p) EXCEPT !.valid = @ + 1]
                             ELSE [OutcomesOf(p) EXCEPT !.invalid = @ + 1])
                /\ loc' = [loc EXCEPT ![w].valid = ok]
                /\ pc' = [pc EXCEPT ![w] = "s_lock"]
                /\ UNCHANGED <<req, resp>>
    /\ UNCHANGED <<rev, dirMode, call,
                   allowUploads, disk, cache, cacheWriters, stats,
                   statsHolders, events, watching, mpc, todo, mschema, wpc,
                   wname, wschema, crashed, nreq, nwrites, clean,
                   lastPut>>

\* schema, found := cache[schemaFile]; cacheMutex.RUnlock(); then the request
\* is answered, or validated up to the call of updateStats
VLookup(w) ==
    /\ ~crashed
    /\ pc[w] = "v_lookup"
    /\ cacheReaders' = cacheReaders \ {w}
    /\ LET l == Lookup(loc[w].schemaFile)
           doc == req[w].body
           p == Path(req[w].name)
           ok == SchemaAccepts(l.schema, doc)
       IN  IF ~l.found
           THEN /\ Finish(w, "notfound", Empty)
                /\ UNCHANGED outcomes
           ELSE IF ~DocIsJSON(doc)
           THEN /\ Finish(w, "baddoc", Empty)
                /\ UNCHANGED outcomes
           ELSE IF l.schema.nil
           THEN \* nil pointer dereference in schema.Validate; net/http
                \* recovers the panic and drops the connection
                /\ Finish(w, "aborted", Empty)
                /\ UNCHANGED outcomes
           ELSE /\ outcomes' = Put(outcomes, p,
                       IF ok THEN [OutcomesOf(p) EXCEPT !.valid = @ + 1]
                             ELSE [OutcomesOf(p) EXCEPT !.invalid = @ + 1])
                /\ loc' = [loc EXCEPT ![w].valid = ok]
                /\ pc' = [pc EXCEPT ![w] = "s_lock"]
                /\ UNCHANGED <<req, resp>>
    /\ UNCHANGED <<rev, dirMode, call,
                   allowUploads, disk, cache, cacheWriters, stats,
                   statsHolders, events, watching, mpc, todo, mschema, wpc,
                   wname, wschema, crashed, nreq, nwrites, clean,
                   lastPut>>

(* ----------------------------- updateStats ---------------------------- *)
ZeroStats == [Requests |-> 0, Passes |-> 0, Fails |-> 0]

\* statsMutex.Lock()
SLock(w) ==
    /\ ~crashed
    /\ pc[w] = "s_lock"
    /\ statsHolders = {}
    /\ statsHolders' = statsHolders \cup {w}
    /\ pc' = [pc EXCEPT ![w] = "s_requests"]
    /\ UNCHANGED <<rev, dirMode, call,
                   allowUploads, disk, cache, cacheWriters, cacheReaders,
                   stats, events, watching, mpc, todo, mschema, wpc, wname,
                   wschema, req, loc, resp, crashed, nreq, nwrites, clean,
                   outcomes,
                   lastPut>>

\* SRequests with the response sharing the map it was made from
SRequests_SharesSnapshot(w) ==
    /\ ~crashed
    /\ pc[w] = "s_requests"
    /\ LET p == Path(req[w].name)
           cur == IF p \in DOMAIN stats THEN stats[p] ELSE ZeroStats
       IN  /\ stats' = Put(stats, p, [cur EXCEPT !.Requests = @ + 1])
           /\ resp' = IF resp.status = "stats"
                      THEN [resp EXCEPT !.snap = stats']
                      ELSE resp
    /\ pc' = [pc EXCEPT ![w] = "s_outcome"]
    /\ UNCHANGED <<rev, dirMode, call,
                   allowUploads, disk, cache, cacheWriters, cacheReaders,
                   statsHolders, events, watching, mpc, todo, mschema, wpc,
                   wname, wschema, req, loc, crashed, nreq, nwrites,
                   clean, outcomes,
                   lastPut>>

\* SRequests creating a fresh PathStats on every call
SRequests_Reset(w) ==
    /\ ~crashed
    /\ pc[w] = "s_requests"
    /\ stats' = Put(stats, Path(req[w].name), [ZeroStats EXCEPT !.Requests = @ + 1])
    /\ pc' = [pc EXCEPT ![w] = "s_outcome"]
    /\ UNCHANGED <<rev, dirMode, call,
                   allowUploads, disk, cache, cacheWriters, cacheReaders,
                   statsHolders, events, watching, mpc, todo, mschema, wpc,
                   wname, wschema, req, loc, resp, crashed, nreq, nwrites,
                   clean, outcomes,
                   lastPut>>

\* if stats[path] == nil { stats[path] = &PathStats{} }; stats[path].Requests++
SRequests(w) ==
    /\ ~crashed
    /\ pc[w] = "s_requests"
    /\ LET p == Path(req[w].name)
           cur == IF p \in DOMAIN stats THEN stats[p] ELSE ZeroStats
       IN  stats' = Put(stats, p, [cur EXCEPT !.Requests = @ + 1])
    /\ pc' = [pc EXCEPT ![w] = "s_outcome"]
    /\ UNCHANGED <<rev, dirMode, call,
                   allowUploads, disk, cache, cacheWriters, cacheReaders,
                   statsHolders, events, watching, mpc, todo, mschema, wpc,
                   wname, wschema, req, loc, resp, crashed, nreq, nwrites,
                   clean, outcomes,
                   lastPut>>

\* SOutcome counting the outcome on every path recorded so far
SOutcome_AllPaths(w) ==
    /\ ~crashed
    /\ pc[w] = "s_outcome"
    /\ stats' = [q \in DOMAIN stats |->
                    IF loc[w].valid THEN [stats[q] EXCEPT !.Passes = @ + 1]
                                    ELSE [stats[q] EXCEPT !.Fails = @ + 1]]
    /\ statsHolders' = statsHolders \ {w}
    /\ Finish(w, IF loc[w].valid THEN "passed" ELSE "failed", Empty)
    /\ UNCHANGED <<rev, dirMode, call,
                   allowUploads, disk, cache, cacheWriters, cacheReaders,
                   events, watching, mpc, todo, mschema, wpc, wname, wschema,
                   crashed, nreq, nwrites, clean, outcomes,
                   lastPut>>

\* SOutcome with the test of passed inverted
SOutcome_Swapped(w) ==
    /\ ~crashed
    /\ pc[w] = "s_outcome"
    /\ LET p == Path(req[w].name)
       IN  stats' = [stats EXCEPT ![p] =
                        IF ~loc[w].valid THEN [@ EXCEPT !.Passes = @ + 1]
                                         ELSE [@ EXCEPT !.Fails = @ + 1]]
    /\ statsHolders' = statsHolders \ {w}
    /\ Finish(w, IF loc[w].valid THEN "passed" ELSE "failed", Empty)
    /\ UNCHANGED <<rev, dirMode, call,
                   allowUploads, disk, cache, cacheWriters, cacheReaders,
                   events, watching, mpc, todo, mschema, wpc, wname, wschema,
                   crashed, nreq, nwrites, clean, outcomes,
                   lastPut>>

\* stats[path].Passes++ or stats[path].Fails++; the deferred Unlock; the response
SOutcome(w) ==
    /\ ~crashed
    /\ pc[w] = "s_outcome"
    /\ LET p == Path(req[w].name)
       IN  stats' = [stats EXCEPT ![p] =
                        IF loc[w].valid THEN [@ EXCEPT !.Passes = @ + 1]
                                        ELSE [@ EXCEPT !.Fails = @ + 1]]
    /\ statsHolders' = statsHolders \ {w}
    /\ Finish(w, IF loc[w].valid THEN "passed" ELSE "failed", Empty)
    /\ UNCHANGED <<rev, dirMode, call,
                   allowUploads, disk, cache, cacheWriters, cacheReaders,
                   events, watching, mpc, todo, mschema, wpc, wname, wschema,
                   crashed, nreq, nwrites, clean, outcomes,
                   lastPut>>

(* ----------------------------- statsHandler --------------------------- *)
\* a GET /stats request arrives
StartStats(w) ==
    /\ ~crashed
    /\ mpc = "serve"
    /\ FirstIdle(w)
    /\ nreq < MaxRequests
    /\ nreq' = nreq + 1
    /\ req' = [req EXCEPT ![w] = [NoReq EXCEPT !.kind = "stats"]]
    /\ pc' = [pc EXCEPT ![w] = "st_lock"]
    /\ UNCHANGED <<rev, dirMode, call,
                   allowUploads, disk, cache, cacheWriters, cacheReaders,
                   stats, statsHolders, events, watching, mpc, todo, mschema,
                   wpc, wname, wschema, loc, resp, crashed, nwrites, clean,
                   outcomes,
                   lastPut>>

\* StLock without waiting for the statistics lock
StLock_NoWait(w) ==
    /\ ~crashed
    /\ pc[w] = "st_lock"
    /\ statsHolders' = statsHolders \cup {w}
    /\ pc' = [pc EXCEPT ![w] = "st_marshal"]
    /\ UNCHANGED <<rev, dirMode, call,
                   allowUploads, disk, cache, cacheWriters, cacheReaders,
                   stats, events, watching, mpc, todo, mschema, wpc, wname,
                   wschema, req, loc, resp, crashed, nreq, nwrites, clean,
                   outcomes,
                   lastPut>>

\* statsMutex.Lock()
StLock(w) ==
    /\ ~crashed
    /\ pc[w] = "st_lock"
    /\ statsHolders = {}
    /\ statsHolders' = statsHolders \cup {w}
    /\ pc' = [pc EXCEPT ![w] = "st_marshal"]
    /\ UNCHANGED <<rev, dirMode, call,
                   allowUploads, disk, cache, cacheWriters, cacheReaders,
                   stats, events, watching, mpc, todo, mschema, wpc, wname,
                   wschema, req, loc, resp, crashed, nreq, nwrites, clean,
                   outcomes,
                   lastPut>>

\* json.Marshal(stats); w.Write(jsonStats); the deferred Unlock
StMarshal(w) ==
    /\ ~crashed
    /\ pc[w] = "st_marshal"
    /\ statsHolders' = statsHolders \ {w}
    /\ Finish(w, "stats", stats)
    /\ UNCHANGED <<rev, dirMode, call,
                   allowUploads, disk, cache, cacheWriters, cacheReaders,
                   stats, events, watching, mpc, todo, mschema, wpc, wname,
                   wschema, crashed, nreq, nwrites, clean, outcomes,
                   lastPut>>

(* ----------------------------- schemaHandler -------------------------- *)
\* a GET /schema/{schema} request arrives
StartSchema(w, name) ==
    /\ ~crashed
    /\ mpc = "serve"
    /\ FirstIdle(w)
    /\ nreq < MaxRequests
    /\ nreq' = nreq + 1
    /\ req' = [req EXCEPT ![w] = [NoReq EXCEPT !.kind = "schema", !.name = name]]
    /\ loc' = [loc EXCEPT ![w] = [NoLoc EXCEPT
                  !.schemaFile = schemaFileOf(rev, name)]]
    /\ pc' = [pc EXCEPT ![w] = "g_rlock"]
    /\ UNCHANGED <<rev, dirMode, call,
                   allowUploads, disk, cache, cacheWriters, cacheReaders,
                   stats, statsHolders, events, watching, mpc, todo, mschema,
                   wpc, wname, wschema, resp, crashed, nwrites, clean, outcomes,
                   lastPut>>

\* cacheMutex.RLock()
GRLock(w) ==
    /\ ~crashed
    /\ pc[w] = "g_rlock"
    /\ cacheWriters = {}
    /\ cacheReaders' = cacheReaders \cup {w}
    /\ pc' = [pc EXCEPT ![w] = "g_lookup"]
    /\ UNCHANGED <<rev, dirMode, call,
                   allowUploads, disk, cache, cacheWriters, stats,
                   statsHolders, events, watching, mpc, todo, mschema, wpc,
                   wname, wschema, req, loc, resp, crashed, nreq, nwrites,
                   clean, outcomes,
                   lastPut>>

\* _, found := cache[schemaFile]; cacheMutex.RUnlock(); 404 when not found
GLookup(w) ==
    /\ ~crashed
    /\ pc[w] = "g_lookup"
    /\ cacheReaders' = cacheReaders \ {w}
    /\ IF Lookup(loc[w].schemaFile).found
       THEN /\ pc' = [pc EXCEPT ![w] = "g_read"]
            /\ UNCHANGED <<req, loc, resp>>
       ELSE Finish(w, "notfound", Empty)
    /\ UNCHANGED <<rev, dirMode, call,
                   allowUploads, disk, cache, cacheWriters, stats,
                   statsHolders, events, watching, mpc, todo, mschema, wpc,
                   wname, wschema, crashed, nreq, nwrites, clean, outcomes,
                   lastPut>>

\* schemaContent, err := ioutil.ReadFile(filepath.Join(schemasDir, schemaFile));
\* 500 on an error, else the content of the file is the response
GRead(w) ==
    /\ ~crashed
    /\ pc[w] = "g_read"
    /\ LET b == ReadFile(disk, loc[w].schemaFile)
       IN  IF b = NoFile
           THEN Finish(w, "readfailed", Empty)
           ELSE /\ resp' = [NoResp EXCEPT !.status = "schema", !.req = req[w],
                                          !.bytes = b]
                /\ pc' = [pc EXCEPT ![w] = "idle"]
                /\ req' = [req EXCEPT ![w] = NoReq]
                /\ loc' = [loc EXCEPT ![w] = NoLoc]
    /\ UNCHANGED <<rev, dirMode, call,
                   allowUploads, disk, cache, cacheWriters, cacheReaders,
                   stats, statsHolders, events, watching, mpc, todo, mschema,
                   wpc, wname, wschema, crashed, nreq, nwrites, clean, outcomes,
                   lastPut>>

(* -------------------------- uploadSchemaHandler ----------------------- *)
\* UploadGate without the test of --allow-uploads
UploadGate_NoForbid(r, allow, name, body, declared) ==
    IF declared > maxUploadSize(r) THEN "toolarge"
    ELSE IF ~IsJSON(body) THEN "badjson"
    ELSE IF r = 1
    THEN IF Ext(schemaFileOf(r, name)) # JsonExt THEN "badext" ELSE "pass"
    ELSE IF ~safePath(schemasDir, schemaFileOf(r, name)).ok THEN "badname"
    ELSE IF MetaValidate(body) = "err" THEN "metaerror"
    ELSE IF MetaValidate(body) = "invalid" THEN "badschema"
    ELSE "pass"

\* the checks made before the schema is saved, in the order the code makes
\* them; "pass" when the handler goes on to ioutil.WriteFile
UploadGate(r, allow, name, body, declared) ==
    IF ~allow THEN "forbidden"
    ELSE IF declared > maxUploadSize(r) THEN "toolarge"
    ELSE IF ~IsJSON(body) THEN "badjson"
    ELSE IF r = 1
    THEN IF Ext(schemaFileOf(r, name)) # JsonExt THEN "badext" ELSE "pass"
    ELSE IF ~safePath(schemasDir, schemaFileOf(r, name)).ok THEN "badname"
    ELSE IF MetaValidate(body) = "err" THEN "metaerror"
    ELSE IF MetaValidate(body) = "invalid" THEN "badschema"
    ELSE "pass"

\* a POST /schema/{schema} request arrives; declared is r.ContentLength
\* (-1 when the request declares no length)
StartUpload(w, name, body, declared) ==
    /\ ~crashed
    /\ mpc = "serve"
    /\ FirstIdle(w)
    /\ nreq < MaxRequests
    /\ nreq' = nreq + 1
    /\ LET g == UploadGate(rev, allowUploads, name, body, declared)
       IN  IF g = "pass"
           THEN /\ req' = [req EXCEPT ![w] = [NoReq EXCEPT
                              !.kind = "upload", !.name = name, !.body = body,
                              !.declared = declared]]
                /\ loc' = [loc EXCEPT ![w] = [NoLoc EXCEPT
                              !.schemaFile = schemaFileOf(rev, name)]]
                /\ pc' = [pc EXCEPT ![w] = "u_write"]
                /\ UNCHANGED resp
           ELSE /\ resp' = [NoResp EXCEPT
                            !.status = g,
                            !.req = [NoReq EXCEPT
                              !.kind = "upload", !.name = name, !.body = body,
                              !.declared = declared]]
                /\ UNCHANGED <<pc, req, loc>>
    /\ UNCHANGED <<rev, dirMode, call,
                   allowUploads, disk, cache, cacheWriters, cacheReaders,
                   stats, statsHolders, events, watching, mpc, todo, mschema,
                   wpc, wname, wschema, crashed, nwrites, clean, outcomes,
                   lastPut>>

\* UWrite going on to the Store although the write failed
UWrite_IgnoresError(w, ok) ==
    /\ ~crashed
    /\ pc[w] = "u_write"
    /\ IF ok
       THEN /\ disk' = Put(disk, loc[w].schemaFile, req[w].body)
            /\ events' = Notify(IF loc[w].schemaFile \in DOMAIN disk
                                THEN "write" ELSE "create", loc[w].schemaFile)
            /\ clean' = (clean /\ req[w].body \in ValidContents)
            /\ pc' = [pc EXCEPT ![w] = "u_lock"]
            /\ UNCHANGED <<req, loc, resp>>
       ELSE /\ pc' = [pc EXCEPT ![w] = "u_lock"]
            /\ UNCHANGED <<disk, events, clean, req, loc, resp>>
    /\ UNCHANGED <<rev, dirMode, call,
                   allowUploads, cache, cacheWriters, cacheReaders, stats,
                   statsHolders, watching, mpc, todo, mschema, wpc, wname,
                   wschema, crashed, nreq, nwrites, outcomes,
                   lastPut>>

\* err = ioutil.WriteFile(schemaPath, body, 0644)
UWrite(w, ok) ==
    /\ ~crashed
    /\ pc[w] = "u_write"
    /\ IF ok
       THEN /\ disk' = Put(disk, loc[w].schemaFile, req[w].body)
            /\ events' = Notify(IF loc[w].schemaFile \in DOMAIN disk
                                THEN "write" ELSE "create", loc[w].schemaFile)
            /\ clean' = (clean /\ req[w].body \in ValidContents)
            /\ pc' = [pc EXCEPT ![w] = "u_lock"]
            /\ UNCHANGED <<req, loc, resp>>
       ELSE /\ Finish(w, "savefailed", Empty)
            /\ UNCHANGED <<disk, events, clean>>
    /\ UNCHANGED <<rev, dirMode, call,
                   allowUploads, cache, cacheWriters, cacheReaders, stats,
                   statsHolders, watching, mpc, todo, mschema, wpc, wname,
                   wschema, crashed, nreq, nwrites, outcomes,
                   lastPut>>

\* cacheMutex.Lock()
ULock(w) ==
    /\ ~crashed
    /\ pc[w] = "u_lock"
    /\ cacheWriters = {} /\ cacheReaders = {}
    /\ cacheWriters' = cacheWriters \cup {w}
    /\ pc' = [pc EXCEPT ![w] = "u_load"]
    /\ UNCHANGED <<rev, dirMode, call,
                   allowUploads, disk, cache, cacheReaders, stats,
                   statsHolders, events, watching, mpc, todo, mschema, wpc,
                   wname, wschema, req, loc, resp, crashed, nreq, nwrites,
                   clean, outcomes,
                   lastPut>>

\* ULoad wiping the statistics when it assigns the entry
ULoad_ClearsStats(w) ==
    /\ ~crashed
    /\ pc[w] = "u_load"
    /\ LET f == loc[w].schemaFile
           r == loadSchema(rev, Join(schemasDir, f), ReadFile(disk, f))
       IN  IF r.outcome = "panic"
           THEN \* the handler goroutine ends in the panic, Unlock is skipped
                /\ Finish(w, "aborted", Empty)
                /\ cacheWriters' = (cacheWriters \ {w}) \cup {Leaked}
                /\ UNCHANGED <<cache, lastPut>>
           ELSE /\ cache' = Put(cache, f, r.schema)
                /\ cacheWriters' = cacheWriters \ {w}
                /\ lastPut' = Put(lastPut, f, req[w].body)
                /\ Finish(w, IF r.outcome = "err" THEN "loadfailed" ELSE "uploaded", Empty)
    /\ stats' = Empty
    /\ UNCHANGED <<rev, dirMode, call,
                   allowUploads, disk, cacheReaders, statsHolders,
                   events, watching, mpc, todo, mschema, wpc, wname, wschema,
                   crashed, nreq, nwrites, clean, outcomes>>

\* cache[schemaFile], err = loadSchema(schemaPath); cacheMutex.Unlock(); the
\* response.  A panic in loadSchema leaves the handler before the assignment
\* and before the Unlock; net/http recovers it.
ULoad(w) ==
    /\ ~crashed
    /\ pc[w] = "u_load"
    /\ LET f == loc[w].schemaFile
           r == loadSchema(rev, Join(schemasDir, f), ReadFile(disk, f))
       IN  IF r.outcome = "panic"
           THEN \* the handler goroutine ends in the panic, Unlock is skipped
                /\ Finish(w, "aborted", Empty)
                /\ cacheWriters' = (cacheWriters \ {w}) \cup {Leaked}
                /\ UNCHANGED <<cache, lastPut>>
           ELSE /\ cache' = Put(cache, f, r.schema)
                /\ cacheWriters' = cacheWriters \ {w}
                /\ lastPut' = Put(lastPut, f, req[w].body)
                /\ Finish(w, IF r.outcome = "err" THEN "loadfailed" ELSE "uploaded", Empty)
    /\ UNCHANGED <<rev, dirMode, call,
                   allowUploads, disk, cacheReaders, stats, statsHolders,
                   events, watching, mpc, todo, mschema, wpc, wname, wschema,
                   crashed, nreq, nwrites, clean, outcomes>>

(* --------------------------- listSchemasHandler ----------------------- *)
\* a GET /schemas request: files, err := ioutil.ReadDir(schemasDir); every
\* file whose extension is .json is listed
ListSchemas ==
    /\ ~crashed
    /\ mpc = "serve"
    /\ nreq < MaxRequests
    /\ nreq' = nreq + 1
    /\ resp' = [NoResp EXCEPT
                   !.status = "list",
                   !.req = [NoReq EXCEPT !.kind = "list"],
                   !.names = {n \in DOMAIN disk : Ext(n) = JsonExt}]
    /\ UNCHANGED <<rev, dirMode, call,
                   allowUploads, disk, cache, cacheWriters, cacheReaders,
                   stats, statsHolders, events, watching, mpc, todo, mschema,
                   wpc, wname, wschema, pc, req, loc, crashed, nwrites, clean,
                   outcomes,
                   lastPut>>

(* --------------------------- validate inline -------------------------- *)
\* the schema and document pairs inline requests carry
Inlines ==
    {<<"reqName", "ann">>, <<"reqName", "empty">>, <<"badtype", "ann">>,
     <<"ref", "empty">>, <<"any", "garbage">>}

\* the answer of validateInline(documentBytes, schemaBytes): the schema is
\* compiled on the fly, the document is parsed and validated once
InlineOutcome(schema, doc) ==
    IF NewSchema(schema).err THEN "badschema"
    ELSE IF ~DocIsJSON(doc) THEN "baddoc"
    ELSE IF SchemaAccepts(NewSchema(schema).schema, doc) THEN "passed"
    ELSE "failed"

\* ValidateInline keeping the validator it compiled in the Store
ValidateInline_Keeps(schema, doc) ==
    /\ ~crashed
    /\ mpc = "serve"
    /\ nreq < MaxRequests
    /\ nreq' = nreq + 1
    /\ cache' = IF NewSchema(schema).err THEN cache
                ELSE Put(cache, <<"a", JsonExt>>, NewSchema(schema).schema)
    /\ resp' = [NoResp EXCEPT
                   !.status = InlineOutcome(schema, doc),
                   !.req = [NoReq EXCEPT !.kind = "inline", !.body = doc,
                                         !.schema = schema]]
    /\ UNCHANGED <<rev, dirMode, call,
                   allowUploads, disk, cacheWriters, cacheReaders,
                   stats, statsHolders, events, watching, mpc, todo, mschema,
                   wpc, wname, wschema, pc, req, loc, crashed, nwrites, clean,
                   outcomes,
                   lastPut>>

\* a POST /validatewithschema request with a schema and a document: no
\* persistence and no Store interaction
ValidateInline(schema, doc) ==
    /\ ~crashed
    /\ mpc = "serve"
    /\ nreq < MaxRequests
    /\ nreq' = nreq + 1
    /\ resp' = [NoResp EXCEPT
                   !.status = InlineOutcome(schema, doc),
                   !.req = [NoReq EXCEPT !.kind = "inline", !.body = doc,
                                         !.schema = schema]]
    /\ UNCHANGED <<rev, dirMode, call,
                   allowUploads, disk, cache, cacheWriters, cacheReaders,
                   stats, statsHolders, events, watching, mpc, todo, mschema,
                   wpc, wname, wschema, pc, req, loc, crashed, nwrites, clean,
                   outcomes,
                   lastPut>>

(* --------------------------- specification ---------------------------- *)
\* what the outside world writes to the schema files
ExtWrites ==
    {<<n, b>> \in FileNames \X Contents :
        Ext(n) = JsonExt /\ b \notin {"huge", "reqName"}}

\* the requests clients send
Uploads ==
    {<<n, b, d>> \in UploadNames \X Contents \X {-1, 40, 3 * 1024 * 1024} :
        /\ d = ByteLen(b) \/ (d = -1 /\ b = "huge")
        /\ n # <<"a">> => b \in {"trunc", "any"}}

Next ==
    \/ \E x \in ExtWrites : ExtWrite(x[1], x[2])
    \/ \E n \in FileNames : ExtRemove(n)
    \/ StatDir
    \/ CheckWrite
    \/ CheckRemove
    \/ ReadDir
    \/ ScanLoad
    \/ ScanLock
    \/ ScanCommit
    \/ ScanDone
    \/ WatchAdd
    \/ \E e \in events : WatchEvent(e)
    \/ WatchLock
    \/ WatchCommit
    \/ \E w \in Workers, n \in ReqNames, d \in Docs : StartValidate(w, n, d)
    \/ \E w \in Workers : VRLock(w)
    \/ \E w \in Workers : VLookup(w)
    \/ \E w \in Workers : SLock(w)
    \/ \E w \in Workers : SRequests(w)
    \/ \E w \in Workers : SOutcome(w)
    \/ \E w \in Workers : StartStats(w)
    \/ \E w \in Workers : StLock(w)
    \/ \E w \in Workers : StMarshal(w)
    \/ \E w \in Workers, n \in ReqNames : StartSchema(w, n)
    \/ \E w \in Workers : GRLock(w)
    \/ \E w \in Workers : GLookup(w)
    \/ \E w \in Workers : GRead(w)
    \/ \E w \in Workers, u \in Uploads : StartUpload(w, u[1], u[2], u[3])
    \/ ListSchemas
    \/ \E x \in Inlines : ValidateInline(x[1], x[2])
    \/ \E w \in Workers, ok \in BOOLEAN : UWrite(w, ok)
    \/ \E w \in Workers : ULock(w)
    \/ \E w \in Workers : ULoad(w)

\* the server together with an outside writer of the schema directory
Spec == Init /\ [][Next]_vars

\* the server on its own: the schema directory is changed by uploads only
NextServer ==
    \/ StatDir
    \/ CheckWrite
    \/ CheckRemove
    \/ ReadDir
    \/ ScanLoad
    \/ ScanLock
    \/ ScanCommit
    \/ ScanDone
    \/ WatchAdd
    \/ \E e \in events : WatchEvent(e)
    \/ WatchLock
    \/ WatchCommit
    \/ \E w \in Workers, n \in ReqNames, d \in Docs : StartValidate(w, n, d)
    \/ \E w \in Workers : VRLock(w)
    \/ \E w \in Workers : VLookup(w)
    \/ \E w \in Workers : SLock(w)
    \/ \E w \in Workers : SRequests(w)
    \/ \E w \in Workers : SOutcome(w)
    \/ \E w \in Workers : StartStats(w)
    \/ \E w \in Workers : StLock(w)
    \/ \E w \in Workers : StMarshal(w)
    \/ \E w \in Workers, n \in ReqNames : StartSchema(w, n)
    \/ \E w \in Workers : GRLock(w)
    \/ \E w \in Workers : GLookup(w)
    \/ \E w \in Workers : GRead(w)
    \/ \E w \in Workers, u \in Uploads : StartUpload(w, u[1], u[2], u[3])
    \/ ListSchemas
    \/ \E x \in Inlines : ValidateInline(x[1], x[2])
    \/ \E w \in Workers, ok \in BOOLEAN : UWrite(w, ok)
    \/ \E w \in Workers : ULock(w)
    \/ \E w \in Workers : ULoad(w)

SpecServer == Init /\ [][NextServer]_vars

\* the server with its watcher, the outside writer and validations of one
\* document only
NextWatch ==
    \/ \E x \in ExtWrites : ExtWrite(x[1], x[2])
    \/ \E n \in FileNames : ExtRemove(n)
    \/ StatDir
    \/ CheckWrite
    \/ CheckRemove
    \/ ReadDir
    \/ ScanLoad
    \/ ScanLock
    \/ ScanCommit
    \/ ScanDone
    \/ WatchAdd
    \/ \E e \in events : WatchEvent(e)
    \/ WatchLock
    \/ WatchCommit
    \/ \E w \in Workers, n \in ReqNames : StartValidate(w, n, "ann")
    \/ \E w \in Workers : VRLock(w)
    \/ \E w \in Workers : VLookup(w)
    \/ \E w \in Workers : SLock(w)
    \/ \E w \in Workers : SRequests(w)
    \/ \E w \in Workers : SOutcome(w)

SpecWatch == Init /\ [][NextWatch]_vars

(* ------------------------- safePath on its own ------------------------ *)
\* names of up to MaxNameLen pieces: word pieces, dots, a character outside
\* the allow-list and the separator
NameTokens == {"a", ".json", "..", ".", "$", "/"}
PathNames == UNION {[1..k -> NameTokens] : k \in 0..MaxNameLen}

\* values of --schemas-dir: schemas, ./schemas, ., / and /srv
Bases ==
    {<<"schemas">>, <<".", "/", "schemas">>, <<".">>, <<"/">>, <<"/", "srv">>}

InitPath ==
    /\ InitServer
    /\ call \in [base : Bases, name : PathNames, out : {NoOut}]

\* schemaPath, err := safePath(schemasDir, schemaFile)
ApplySafePath ==
    /\ call.out = NoOut
    /\ call' = [call EXCEPT !.out = safePath(call.base, call.name)]
    /\ UNCHANGED <<rev, dirMode, allowUploads, disk, cache, cacheWriters,
                   cacheReaders, stats, statsHolders, events, watching, mpc,
                   todo, mschema, wpc, wname, wschema, pc, req, loc, resp,
                   crashed, nreq, nwrites, clean, outcomes, lastPut>>

SpecPath == InitPath /\ [][ApplySafePath]_vars

(* ------------------------------ claims -------------------------------- *)
StatsOf(p) == IF p \in DOMAIN stats THEN stats[p] ELSE ZeroStats

\* p is inside the exclusive section, about to assign a Store entry
InAssign(p) ==
    \/ p = "main" /\ mpc = "scan_commit"
    \/ p = "watcher" /\ wpc = "commit"
    \/ p \in Workers /\ pc[p] = "u_load"

\* p is inside the shared section, about to read a Store entry
InLookup(p) == p \in Workers /\ pc[p] = "v_lookup"

\* the next step of p calls loadSchema: it reads a schema file and compiles it
LoadsSchemaNext(p) ==
    \/ p = "main" /\ mpc = "scan" /\ todo # <<>>
    \/ p = "watcher" /\ wpc = "select"
    \/ p \in Workers /\ pc[p] = "u_load"

Procs == Workers \cup {"main", "watcher"}

\* C1: every name present in the Store maps to a compiled validator, never
\* to a nil one.
C1_StoreEntriesUsable == \A n \in DOMAIN cache : ~cache[n].nil

C3_FailedUploadKeepsEntry ==
    [][\A w \in Workers :
          (/\ pc[w] \in {"u_write", "u_load"}
           /\ pc'[w] = "idle"
           /\ resp'.status # "uploaded"
           /\ Lookup(loc[w].schemaFile).found
           /\ ~Lookup(loc[w].schemaFile).schema.nil)
          => cache' = cache]_vars

\* C4: when the reload for a change notification fails (the file cannot be
\* read, is not JSON, or does not compile) the Store is left as it was, the
\* watcher goes back to waiting and the process lives on.
C4_FailedReloadKeepsEntry ==
    [][\A e \in events :
          (/\ wpc = "select"
           /\ events' = events \ {e}
           /\ e.op \in {"write", "create"}
           /\ Ext(e.name) = JsonExt
           /\ ReadFile(disk, Base(e.name)) \notin ValidContents)
          => (cache' = cache /\ ~crashed' /\ wpc' = "select")]_vars

\* C5: nobody who holds the exclusive Store lock is about to read a schema
\* file or compile a schema.
C5_NoLoadUnderWriteLock == \A p \in cacheWriters : ~LoadsSchemaNext(p)

C7_RequestsArePassesPlusFails ==
    /\ statsHolders = {} =>
          \A p \in DOMAIN stats : stats[p].Requests = stats[p].Passes + stats[p].Fails
    /\ \A p \in DOMAIN resp.snap :
          resp.snap[p].Requests = resp.snap[p].Passes + resp.snap[p].Fails

\* an outcome has been recorded and a reader was given a snapshot holding it
W_C7 ==
    \E p \in DOMAIN resp.snap :
        /\ resp.snap[p].Requests = 1
        /\ statsHolders = {}
        /\ stats[p].Requests = 1

\* C8: no step lowers a counter or removes a path from the statistics.
C8_CountersNeverDecrease ==
    [][\A p \in DOMAIN stats :
          /\ p \in DOMAIN stats'
          /\ stats'[p].Requests >= stats[p].Requests
          /\ stats'[p].Passes >= stats[p].Passes
          /\ stats'[p].Fails >= stats[p].Fails]_vars

\* a path has been recorded twice
W_C8 == \E p \in DOMAIN stats : stats[p].Requests = 2 /\ statsHolders = {}

\* the requests of path p whose position is in pcs (and whose outcome is v)
PendingAt(p, pcs) ==
    Cardinality({w \in Workers : pc[w] \in pcs /\ Path(req[w].name) = p})
PendingWith(p, pcs, v) ==
    Cardinality({w \in Workers : pc[w] \in pcs /\ Path(req[w].name) = p /\ loc[w].valid = v})

\* C9: the counters of a path are exactly the outcomes produced for it, one
\* request and one pass or fail each, less those still being recorded.
C9_OneOutcomeOneCount ==
    /\ DOMAIN stats \subseteq DOMAIN outcomes
    /\ \A p \in DOMAIN outcomes :
          /\ StatsOf(p).Requests = outcomes[p].valid + outcomes[p].invalid
                                   - PendingAt(p, {"s_lock", "s_requests"})
          /\ StatsOf(p).Passes = outcomes[p].valid
                                 - PendingWith(p, {"s_lock", "s_requests", "s_outcome"}, TRUE)
          /\ StatsOf(p).Fails = outcomes[p].invalid
                                - PendingWith(p, {"s_lock", "s_requests", "s_outcome"}, FALSE)

\* one valid and one invalid request on a path: requests=2, passes=1, fails=1
W_C9 ==
    \E p \in DOMAIN stats :
        /\ stats[p] = [Requests |-> 2, Passes |-> 1, Fails |-> 1]
        /\ \A w \in Workers : pc[w] = "idle"

\* C10: at the moment an upload of valid bytes b answers success, the Store
\* entry of its name is a validator that accepts what b accepts.
C10_UploadedIsServed ==
    [][\A w \in Workers :
          (/\ pc[w] = "u_load"
           /\ pc'[w] = "idle"
           /\ resp'.status = "uploaded"
           /\ req[w].body \in ValidContents)
          => /\ loc[w].schemaFile \in DOMAIN cache'
             /\ ~cache'[loc[w].schemaFile].nil
             /\ cache'[loc[w].schemaFile].required = Required(req[w].body)]_vars

\* no upload is between its gates and its assignment of the Store entry
UploadsDone == \A w \in Workers : pc[w] \notin {"u_write", "u_lock", "u_load"}

\* C11: while only valid bytes are ingested, once no upload is in progress
\* every Store entry that has been assigned is the complete validator compiled
\* from the bytes of the ingestion that assigned it last.
C11_LastCommitWins ==
    (clean /\ UploadsDone) =>
        \A f \in DOMAIN lastPut :
            f \in DOMAIN cache /\ cache[f] = NewSchema(lastPut[f]).schema

\* C12: an upload writes its bytes to the schema directory only after they
\* have compiled as a schema: bytes that do not compile create or overwrite
\* no file.
C12_CompileBeforePersist ==
    [][\A w \in Workers :
          (pc[w] = "u_write" /\ pc'[w] = "u_lock") => Compiles(req[w].body)]_vars

\* C13: an upload whose write to disk fails answers with the persist failure
\* and leaves the Store and the directory as they were; an upload goes on to
\* the Store only with its bytes in the file.
C13_PersistFailureKeepsStore ==
    [][\A w \in Workers :
          /\ (pc[w] = "u_write" /\ pc'[w] = "idle")
                => /\ resp'.status = "savefailed"
                   /\ resp'.req = req[w]
                   /\ cache' = cache
                   /\ disk' = disk
          /\ (pc[w] = "u_write" /\ pc'[w] = "u_lock")
                => ReadFile(disk', loc[w].schemaFile) = req[w].body]_vars

\* a write has failed for a name that has a Store entry
W_C13 ==
    /\ resp.status = "savefailed"
    /\ schemaFileOf(rev, resp.req.name) \in DOMAIN cache

\* C14: no upload gets past the gates with a file name that safePath refuses,
\* and no such name is ever a file of the schema directory or a Store entry.
C14_UnsafeNameWritesNothing ==
    /\ \A w \in Workers :
          pc[w] \in {"u_write", "u_lock", "u_load"} => safePath(schemasDir, loc[w].schemaFile).ok
    /\ \A n \in DOMAIN disk \cup DOMAIN cache : safePath(schemasDir, n).ok

\* C15: with uploads enabled, an upload whose body is longer than the maximum
\* never gets past the gates, whatever length it declares, and is answered
\* with TooLarge.
C15_OversizeWritesNothing ==
    /\ \A w \in Workers :
          pc[w] \in {"u_write", "u_lock", "u_load"}
              => ByteLen(req[w].body) <= maxUploadSize(rev)
    /\ (/\ allowUploads
        /\ resp.req.kind = "upload"
        /\ ByteLen(resp.req.body) > maxUploadSize(rev))
          => resp.status = "toolarge"

\* the step is the arrival of an upload request: it is answered by the gates
\* at once or goes on to the write
UploadArrives ==
    /\ nreq' # nreq
    /\ \/ pc' = pc /\ resp'.req.kind = "upload"
       \/ \E w \in Workers : pc[w] = "idle" /\ pc'[w] = "u_write"

\* C16: with uploads disabled every upload request is answered with the
\* forbidden signal in the step it arrives, and that step changes neither
\* the Store, nor the schema directory, nor the statistics.
C16_DisabledUploadsChangeNothing ==
    [][(~allowUploads /\ UploadArrives)
          => /\ resp'.status = "forbidden"
             /\ resp'.req.kind = "upload"
             /\ pc' = pc
             /\ cache' = cache
             /\ disk' = disk
             /\ events' = events
             /\ stats' = stats]_vars

\* an upload was refused as forbidden while the Store and the statistics
\* were not empty
W_C16 ==
    /\ ~allowUploads
    /\ resp.status = "forbidden"
    /\ DOMAIN cache # {}
    /\ DOMAIN stats # {}

\* C17: the process never dies of a panic, and no request handler that has
\* returned (a panic recovered by net/http included) still holds the Store
\* lock, so later requests and change notifications are still served.
C17_RecoverableErrorsDoNotKill ==
    /\ ~crashed
    /\ Leaked \notin cacheWriters

\* C18: when the startup scan comes to a schema file that does not load (not
\* readable, not JSON, or not compiling), it leaves the Store as it was and
\* goes on with the files that remain; the process lives on.
C18_ScanSkipsFailedFile ==
    [][(/\ mpc = "scan"
        /\ todo # <<>>
        /\ Ext(Head(todo)) = JsonExt
        /\ ReadFile(disk, Head(todo)) \notin ValidContents
        /\ (mpc' # mpc \/ todo' # todo \/ crashed' # crashed))
          => /\ ~crashed'
             /\ mpc' = "scan"
             /\ todo' = Tail(todo)
             /\ cache' = cache]_vars

\* the entry process p is about to assign, and the bytes it was compiled from
CommitName(p) ==
    IF p = "main" THEN Head(todo)
    ELSE IF p = "watcher" THEN Base(wname)
    ELSE loc[p].schemaFile
CommitBytes(p) ==
    IF p = "main" THEN mschema.from
    ELSE IF p = "watcher" THEN wschema.from
    ELSE ReadFile(disk, loc[p].schemaFile)

\* the step is p's assignment of a Store entry
Commits(p) ==
    /\ InAssign(p)
    /\ \/ p = "main" /\ mpc' # mpc
       \/ p = "watcher" /\ wpc' # wpc
       \/ p \in Workers /\ pc'[p] # pc[p]

\* the step is a step of the scan, of the watcher or of an upload
IngestionMoves ==
    \/ mpc' # mpc \/ todo' # todo
    \/ wpc' # wpc \/ events' # events
    \/ UploadArrives
    \/ \E w \in Workers : pc[w] \in {"u_write", "u_lock", "u_load"} /\ pc'[w] # pc[w]

\* C19: an ingestion of the bytes the entry of its name was already compiled
\* from leaves the Store exactly as it was, and no step of an ingestion,
\* successful or failed, changes the statistics.
C19_ReingestIsIdempotent ==
    [][/\ \A p \in Procs :
             (/\ Commits(p)
              /\ CommitName(p) \in DOMAIN cache
              /\ ~cache[CommitName(p)].nil
              /\ cache[CommitName(p)].from = CommitBytes(p))
                => cache' = cache
       /\ IngestionMoves => stats' = stats]_vars

\* after a counted validation and a successful upload the watcher is about
\* to assign, for the same name, a validator of the bytes the entry holds
W_C19 ==
    /\ wpc = "commit"
    /\ Base(wname) \in DOMAIN cache
    /\ ~wschema.nil
    /\ cache[Base(wname)] = wschema
    /\ resp.status = "uploaded"
    /\ DOMAIN stats # {}

\* C20: a validation of a name that is not in the Store is answered NotFound
\* whatever its document is; one of a name that is in the Store with a
\* document that is not JSON is answered BadDocument; the step that gives
\* either answer changes neither the Store nor the statistics.
C20_NotFoundAndBadDocumentChangeNothing ==
    [][\A w \in Workers :
          (pc[w] = "v_lookup" /\ pc'[w] # "v_lookup")
          => LET l == Lookup(loc[w].schemaFile)
             IN  /\ ~l.found => (pc'[w] = "idle" /\ resp'.status = "notfound")
                 /\ (l.found /\ ~DocIsJSON(req[w].body))
                       => (pc'[w] = "idle" /\ resp'.status = "baddoc")
                 /\ (pc'[w] = "idle" /\ resp'.status \in {"notfound", "baddoc"})
                       => /\ cache' = cache
                          /\ stats' = stats
                          /\ outcomes' = outcomes
                          /\ disk' = disk]_vars

\* an unknown name with a malformed document was answered NotFound while
\* the statistics were not empty
W_C20 ==
    /\ resp.status = "notfound"
    /\ resp.req.kind = "validate"
    /\ ~DocIsJSON(resp.req.body)
    /\ DOMAIN stats # {}

\* a worker takes a step of updateStats that writes a counter
Records(w) == pc[w] \in {"s_requests", "s_outcome"} /\ pc'[w] # pc[w]

\* C21: the statistics are keyed by the request path: a step of updateStats
\* for the path p of its request changes the counters of p and leaves the
\* counters of every other path as they were, also of a path that names the
\* same schema.
C21_StatsKeyedByPath ==
    [][\A w \in Workers :
          Records(w)
          => LET p == Path(req[w].name)
             IN  /\ DOMAIN stats' = DOMAIN stats \cup {p}
                 /\ stats'[p] # StatsOf(p)
                 /\ \A q \in DOMAIN stats \ {p} : stats'[q] = stats[q]]_vars

\* two different paths that resolve to the same schema file have each
\* counted their own request
W_C21 ==
    \E m, n \in ReqNames :
        /\ m # n
        /\ schemaFileOf(rev, m) = schemaFileOf(rev, n)
        /\ Path(m) \in DOMAIN stats
        /\ Path(n) \in DOMAIN stats
        /\ stats[Path(m)].Passes + stats[Path(m)].Fails = 1
        /\ stats[Path(n)].Passes + stats[Path(n)].Fails = 1

\* C22: a retrieval of the name n is answered NotFound exactly when n is not
\* in the Store, and otherwise with the bytes the entry of n was compiled
\* from; it has no other answer.
C22_RetrieveReturnsStoredBytes ==
    [][\A w \in Workers :
          (pc[w] \in {"g_lookup", "g_read"} /\ pc'[w] = "idle")
          => LET l == Lookup(loc[w].schemaFile)
             IN  IF ~l.found
                 THEN resp'.status = "notfound"
                 ELSE /\ resp'.status = "schema"
                      /\ resp'.bytes = l.schema.from]_vars

\* no scan, reload or upload is under way and no notification is waiting
NoIngestion ==
    /\ mpc = "serve"
    /\ wpc \in {"off", "select"}
    /\ events = {}
    /\ UploadsDone

\* C23: whenever no ingestion is in progress, for every name in the Store
\* the file of that name holds exactly the bytes the Store's validator of
\* that name was compiled from.
C23_FileHoldsStoredBytes ==
    (~crashed /\ NoIngestion) =>
        \A n \in DOMAIN cache : ReadFile(disk, n) = cache[n].from

\* C24: when nothing is being ingested, the list a list-schemas request
\* returns is exactly the set of names the Store holds.
C24_ListIsStoreKeys ==
    [][(NoIngestion /\ nreq' # nreq /\ resp'.req.kind = "list")
          => resp'.names = DOMAIN cache]_vars

C26_FileNameResolves ==
    [][\A w \in Workers :
          (/\ pc[w] \in {"v_lookup", "g_lookup"}
           /\ pc'[w] # pc[w]
           /\ req[w].name \in DOMAIN cache)
          => /\ loc[w].schemaFile = req[w].name
             /\ ~(pc'[w] = "idle" /\ resp'.status = "notfound")]_vars

\* C27: the snapshot a statistics request returns is the statistics of one
\* instant: it is taken while no recording call is between its two
\* increments, it equals the statistics of that instant, and a recording
\* call that runs after it was returned does not alter it.
C27_SnapshotIsOneInstant ==
    [][/\ \A w \in Workers :
             (pc[w] = "st_marshal" /\ pc'[w] = "idle")
             => /\ resp'.status = "stats"
                /\ resp'.snap = stats
                /\ \A u \in Workers : pc[u] \notin {"s_requests", "s_outcome"}
       /\ \A w \in Workers :
             (Records(w) /\ resp.status = "stats" /\ resp'.status = "stats")
             => resp'.snap = resp.snap]_vars

\* a snapshot has been returned and a recording call that started after it
\* has changed the statistics
W_C27 ==
    /\ resp.status = "stats"
    /\ \E w \in Workers : pc[w] = "s_outcome"
    /\ stats # resp.snap

\* C28: every key of the Store ends in .json, whatever scans, notifications
\* and uploads have happened.
C28_StoreKeysEndInJson == \A n \in DOMAIN cache : Ext(n) = JsonExt

\* an upload under a name without extension has been stored
W_C28 ==
    /\ resp.status = "uploaded"
    /\ Ext(resp.req.name) # JsonExt
    /\ schemaFileOf(rev, resp.req.name) \in DOMAIN cache

\* C29: an inline validation compiles the schema it was given and validates
\* the document once; it is answered while other requests hold or wait for
\* the Store lock, and it neither reads nor changes the Store, takes no
\* Store lock and writes nothing to the directory.
C29_InlineBypassesStore ==
    [][(nreq' # nreq /\ resp'.req.kind = "inline")
          => /\ resp'.status = InlineOutcome(resp'.req.schema, resp'.req.body)
             /\ cache' = cache
             /\ cacheWriters' = cacheWriters
             /\ cacheReaders' = cacheReaders
             /\ disk' = disk
             /\ events' = events
             /\ lastPut' = lastPut]_vars

\* an inline validation against a schema the Store does not hold was
\* answered while an upload held the Store lock
W_C29 ==
    /\ resp.req.kind = "inline"
    /\ resp.status \in {"passed", "failed"}
    /\ cacheWriters # {}
    /\ \A n \in DOMAIN cache : cache[n].from # resp.req.schema

\* C30: the name is the first gate of an upload: with uploads enabled, an
\* upload under an unsafe name is answered NameRejected whatever its body
\* is, also when the body is too large or is not JSON.
C30_UnsafeNameRejectedFirst ==
    (/\ allowUploads
     /\ resp.req.kind = "upload"
     /\ ~safePath(schemasDir, schemaFileOf(rev, resp.req.name)).ok)
    => resp.status = "badname"

\* C31: every holder of the Store lock or of the statistics lock releases it
\* in the step that ends its locked section, on every path: a request
\* handler that goes back to idle holds no lock, and the scan and the watcher
\* hold none after their assignment.
C31_LocksAreReleased ==
    [][/\ \A w \in Workers :
             (pc[w] # "idle" /\ pc'[w] = "idle")
             => /\ w \notin cacheWriters'
                /\ Leaked \notin cacheWriters'
                /\ w \notin cacheReaders'
                /\ w \notin statsHolders'
       /\ (mpc = "scan_commit" /\ mpc' # mpc) => "main" \notin cacheWriters'
       /\ (wpc = "commit" /\ wpc' # wpc) => "watcher" \notin cacheWriters']_vars

\* C32: no process holds the Store lock and the statistics lock at the same
\* time, and no process waits for one of the two locks while it holds the
\* other: a cycle of lock waits cannot form.
C32_NeverBothLocks ==
    /\ \A p \in Procs : ~(p \in cacheWriters \cup cacheReaders /\ p \in statsHolders)
    /\ \A w \in Workers :
          /\ pc[w] \in {"s_lock", "st_lock"} => w \notin cacheWriters \cup cacheReaders
          /\ pc[w] \in {"v_rlock", "g_rlock", "u_lock"} => w \notin statsHolders

\* one worker records statistics under the statistics lock while another
\* process holds the Store lock
W_C32 ==
    \E w \in Workers, p \in Procs :
        /\ p # w
        /\ pc[w] = "s_outcome"
        /\ w \in statsHolders
        /\ p \in cacheWriters \cup cacheReaders

\* C33: once nothing is being ingested and no notification is waiting, the
\* Store entry of every schema file whose contents compile is the validator
\* compiled from those contents: no reload or upload that read older
\* contents has overwritten the commit of the current ones for good.
C33_StoreCatchesUp ==
    (~crashed /\ NoIngestion /\ Leaked \notin cacheWriters) =>
        \A n \in DOMAIN disk :
            (Ext(n) = JsonExt /\ disk[n] \in ValidContents)
            => /\ n \in DOMAIN cache
               /\ cache[n] = NewSchema(disk[n]).schema

\* the watcher takes the notification e, a create or write of a .json path
Reloads(e) ==
    /\ wpc = "select"
    /\ e \in events
    /\ events' = events \ {e}
    /\ e.op \in {"write", "create"}
    /\ Ext(e.name) = JsonExt

\* C34: a reload of a file that does not load leaves the Store as it was and
\* the watcher goes on taking notifications, the process alive; a reload of
\* a file that compiles goes on to replace the entry by the validator of the
\* bytes it read.
C34_FailedReloadIsSkipped ==
    [][\A e \in events :
          Reloads(e)
          => LET b == ReadFile(disk, Base(e.name))
             IN  IF b \in ValidContents
                 THEN wpc' = "lock" /\ wschema' = NewSchema(b).schema
                 ELSE ~crashed' /\ wpc' = "select" /\ cache' = cache]_vars

\* C35: no step removes a name from the Store; a notification that is not a
\* create or write of a .json path leaves the Store as it was and the
\* watcher ready for the next one; a validation of a name whose file is gone
\* is still resolved.
C35_NamesAreNeverRemoved ==
    [][/\ DOMAIN cache \subseteq DOMAIN cache'
       /\ \A e \in events :
             (/\ wpc = "select"
              /\ events' = events \ {e}
              /\ (e.op \notin {"write", "create"} \/ Ext(e.name) # JsonExt))
             => (cache' = cache /\ wpc' = "select")
       /\ \A w \in Workers :
             (/\ pc[w] = "v_lookup"
              /\ pc'[w] # pc[w]
              /\ loc[w].schemaFile \in DOMAIN cache
              /\ loc[w].schemaFile \notin DOMAIN disk)
             => ~(pc'[w] = "idle" /\ resp'.status = "notfound")]_vars

\* the file of a name the Store holds has been deleted and the watcher is
\* about to take the notification of it
W_C35 ==
    \E e \in events :
        /\ e.op = "remove"
        /\ wpc = "select"
        /\ Base(e.name) \in DOMAIN cache
        /\ Base(e.name) \notin DOMAIN disk

\* the name has no path separator
Bare(name) == \A i \in 1..Len(name) : name[i] # "/"

\* C36: every key of the Store is a bare file name, and a retrieval reads
\* the file of a key it found in the Store, a file directly inside the
\* schema directory.
C36_KeysAreBareNames ==
    /\ \A n \in DOMAIN cache : Bare(n)
    /\ \A w \in Workers :
          pc[w] = "g_read"
          => /\ loc[w].schemaFile \in DOMAIN cache
             /\ Bare(loc[w].schemaFile)
             /\ Base(Join(schemasDir, loc[w].schemaFile)) = loc[w].schemaFile

\* a retrieval is about to read the file of a key that the watcher assigned
\* from the path of a notification
W_C36 ==
    /\ \E w \in Workers : pc[w] = "g_read"
    /\ wpc = "select"
    /\ ~Bare(wname)
    /\ Base(wname) \in DOMAIN cache

\* the name is made of letters, digits, "-", "_" and "." only
OnlyAllowed(name) == \A i \in 1..Len(name) : name[i] \in SafeTokens

\* C37: safePath accepts a name exactly when it is made of letters, digits,
\* "-", "_" and "." only, and for an accepted name it returns the path of
\* that name directly inside the schema directory, whatever the directory.
C37_SafePathAcceptsAllowedNames ==
    call.out # NoOut =>
        /\ call.out.ok <=> OnlyAllowed(call.name)
        /\ call.out.ok => call.out.path = Clean(call.base) \o <<"/">> \o call.name

\* C38: the watcher starts and requests are taken only after the startup
\* scan is over; and once the directory is watched and nothing is left to
\* ingest, every compiling schema file, whenever it was written since the
\* scan began, has the Store entry compiled from its contents.
C38_ScanFirstAndNoWriteLost ==
    /\ (wpc # "off" \/ nreq > 0) => mpc = "serve"
    /\ (watching /\ ~crashed /\ NoIngestion /\ Leaked \notin cacheWriters)
          => \A n \in DOMAIN disk :
                (Ext(n) = JsonExt /\ disk[n] \in ValidContents)
                => (n \in DOMAIN cache /\ cache[n].from = disk[n])

====
